---- MODULE Spec2Model ----
(***************************************************************************)
(* Model of the Opportunity Analysis dashboard (src/opp.py): the           *)
(* authentication section, map_lob, get_producer_names,                    *)
(* connect_sf_and_query and the grouping done by the visualizations.       *)
(*                                                                         *)
(* Python values are tagged records: None, S(x) a str, D(r) a dict.  A     *)
(* dict is a function whose DOMAIN is its key set, so that a missing key   *)
(* and a key holding None are different things.  Display names are         *)
(* sequences of one-character strings so that strip() is computed.         *)
(***************************************************************************)
EXTENDS Integers, Sequences, FiniteSets, TLC

VARIABLES session_state, pc, start_date, end_date, store,
          type_results, results_with_prod, results_without_prod,
          producer_ids, producer_names, lob_local, calls, raised, escaped,
          lob_df, producer_df, grouped_lob, grouped_producer,
          fn_in, fn_out

vars == <<session_state, pc, start_date, end_date, store,
          type_results, results_with_prod, results_without_prod,
          producer_ids, producer_names, lob_local, calls, raised, escaped,
          lob_df, producer_df, grouped_lob, grouped_producer,
          fn_in, fn_out>>

----------------------------------------------------------------------------
(* Bounds of the model *)

MaxRows1 == 2
MaxRows2 == 2
MaxCount == 2
MaxDay == 2
MaxOpps == 2
MaxLookup == 2

----------------------------------------------------------------------------
(* Python values *)

None == [t |-> "None"]
S(x) == [t |-> "str", v |-> x]
D(r) == [t |-> "dict", v |-> r]
EmptyDict == [x \in {} |-> x]

\* dict.get(k, default)
DictGet(d, k, default) == IF k \in DOMAIN d THEN d[k] ELSE default

\* truth value of an id read with rec.get("Producer__c")
TruthyId(x) == x.t = "str" /\ x.v # ""

\* `x or {}` for a relationship value
OrEmptyDict(x) == IF x.t = "dict" /\ DOMAIN x.v # {} THEN x.v ELSE EmptyDict

RECURSIVE LStrip(_)
LStrip(s) == IF s = <<>> THEN s
             ELSE IF Head(s) = " " THEN LStrip(Tail(s)) ELSE s

RECURSIVE RStrip(_)
RStrip(s) == IF s = <<>> THEN s
             ELSE IF s[Len(s)] = " " THEN RStrip(SubSeq(s, 1, Len(s) - 1)) ELSE s

\* str.strip()
Strip(s) == RStrip(LStrip(s))

\* conversion of a value inside an f-string
Format(x) == IF x.t = "None" THEN <<"N", "o", "n", "e">> ELSE x.v

NAME_NOT_PROVIDED ==
    <<"N", "a", "m", "e", " ", "N", "o", "t", " ",
      "P", "r", "o", "v", "i", "d", "e", "d">>

RECURSIVE SeqSum(_)
SeqSum(s) == IF s = <<>> THEN 0 ELSE s[1] + SeqSum(Tail(s))

RECURSIVE SetSum(_, _)
SetSum(f, D0) == IF D0 = {} THEN 0
                 ELSE LET x == CHOOSE y \in D0 : TRUE
                      IN f[x] + SetSum(f, D0 \ {x})

SeqsUpTo(A, n) == UNION {[1..k -> A] : k \in 0..n}

----------------------------------------------------------------------------
(* map_lob *)

LOB_MAPPING ==
    [k \in {"Homeowners", "Dwelling Fire - PL", "Mobile Homeowners",
            "Wind Only - PL"} |-> "Homeowners"] @@
    [k \in {"Personal Auto", "Motorcycle/ATV", "Motorhome",
            "Recreational Vehicle", "Travel Trailer", "Golf Cart"}
        |-> "Personal Auto"] @@
    [k \in {"Watercraft", "Charter Watercraft", "Yacht", "Burnboat", "Boat"}
        |-> "Boat"] @@
    [k \in {"Umbrella", "Commercial Umbrella"} |-> "Umbrella"] @@
    [k \in {"Inland Marine - PL", "Inland Marine - CL"} |-> "Inland Marine"] @@
    [k \in {"Commercial Package", "Builders Risk/Installation - PL",
            "Builders Risk/Installation - CL", "Business Owners",
            "Commercial Auto", "Commercial Property", "Directors & Officers",
            "Employment Practice Liability", "Errors & Omissions",
            "General Liability", "Liquor Liability", "Marine Package",
            "Wind Only - CL"} |-> "Commercial"] @@
    [k \in {"Flood - PL", "Personal Liability", "Life"} |-> "Other"]

\* the keys some differently-cased inputs would fold to
CaseFold ==
    ("homeowners" :> "Homeowners") @@ ("HOMEOWNERS" :> "Homeowners") @@
    ("yacht" :> "Yacht") @@ ("YACHT" :> "Yacht") @@ ("boat" :> "Boat") @@
    ("BOAT" :> "Boat") @@ ("umbrella" :> "Umbrella") @@
    ("golf cart" :> "Golf Cart") @@ ("Golf cart" :> "Golf Cart") @@
    ("Personal auto" :> "Personal Auto")

\* a lookup that ignores case
map_lob_casefold(type_value) ==
    IF type_value.t = "str" /\ type_value.v \in DOMAIN LOB_MAPPING
    THEN S(LOB_MAPPING[type_value.v])
    ELSE IF type_value.t = "str" /\ type_value.v \in DOMAIN CaseFold
         THEN S(LOB_MAPPING[CaseFold[type_value.v]])
         ELSE S("Other")

\* LOB_MAPPING.get(type_value) with the default left out
map_lob_nodefault(type_value) ==
    IF type_value.t = "str" /\ type_value.v \in DOMAIN LOB_MAPPING
    THEN S(LOB_MAPPING[type_value.v])
    ELSE None

map_lob(type_value) ==
    IF type_value.t = "str" /\ type_value.v \in DOMAIN LOB_MAPPING
    THEN S(LOB_MAPPING[type_value.v])
    ELSE S("Other")

----------------------------------------------------------------------------
(* get_producer_names: the naming loop *)

full_name(rec) ==
    LET internal_user == OrEmptyDict(DictGet(rec, "InternalUser", None))
        first == DictGet(internal_user, "FirstName", S(<<>>))
        last == DictGet(internal_user, "LastName", S(<<>>))
        name == Strip(Format(first) \o <<" ">> \o Format(last))
    IN IF name = <<>> THEN NAME_NOT_PROVIDED ELSE name

RECURSIVE names_mapping(_)
names_mapping(records) ==
    IF records = <<>> THEN EmptyDict
    ELSE LET n == Len(records)
             rec == records[n]
         IN (DictGet(rec, "Id", None) :> S(full_name(rec)))
              @@ names_mapping(SubSeq(records, 1, n - 1))

----------------------------------------------------------------------------
(* connect_sf_and_query: the pure parts *)

\* lines 161-170: the LOBReport rows of a query-1 response
lob_data(records) ==
    [i \in 1..Len(records) |->
        LET picklist_val == DictGet(records[i], "Type", S("Other"))
        IN [Type |-> picklist_val,
            LOB_Category |-> map_lob(picklist_val),
            Count |-> DictGet(records[i], "oppCount", 0)]]

\* line 191: the distinct truthy producer ids of a query-2 response
gather_ids(records) ==
    {DictGet(records[i], "Producer__c", None) : i \in
        {j \in 1..Len(records) :
            TruthyId(DictGet(records[j], "Producer__c", None))}}

\* lines 196-207: the ProducerReport rows of a query-2 response
producer_rows(records, names) ==
    [i \in 1..Len(records) |->
        LET prod_id == DictGet(records[i], "Producer__c", None)
            picklist_val == DictGet(records[i], "Type", S("Other"))
        IN [Producer |-> DictGet(names, prod_id, S(NAME_NOT_PROVIDED)),
            Type |-> picklist_val,
            LOB_Category |-> map_lob(picklist_val),
            Count |-> DictGet(records[i], "oppCount", 0)]]

\* lines 209-220: the ProducerReport rows of a query-3 response
owner_rows(records) ==
    [i \in 1..Len(records) |->
        LET owner == OrEmptyDict(DictGet(records[i], "Owner", None))
            picklist_val == DictGet(records[i], "Type", S("Other"))
        IN [Producer |-> DictGet(owner, "Name", S(NAME_NOT_PROVIDED)),
            Type |-> picklist_val,
            LOB_Category |-> map_lob(picklist_val),
            Count |-> DictGet(records[i], "oppCount", 0)]]

\* the sites that can raise, and whether the try block covers them
InTry(site) == site \in {"session", "q1", "q2", "q3", "lookup"}

\* a handler that hands back what was built so far
except_return_partial(lob) == [lob |-> lob, prod |-> <<>>]

\* lines 225-227: what the handler returns
except_return(lob) == [lob |-> <<>>, prod |-> <<>>]

\* a call site that carries on after a failed call
after_call_swallow(ok, next) == next

\* where control goes after an external call: on, or to the handler
after_call(ok, next) == IF ok THEN next ELSE "except"

\* get_producer_names without the early return
needs_lookup_always(ids) == TRUE

\* lines 112-113: an empty id list returns {} before any query is built
needs_lookup(ids) == ids # {}

----------------------------------------------------------------------------
(* the grouping done by the visualizations *)

\* lob_df.groupby("LOB_Category")["Count"].sum(); groupby drops null keys
group_lob(df) ==
    LET keys == {df[i].LOB_Category : i \in
                    {j \in 1..Len(df) : df[j].LOB_Category.t # "None"}}
    IN [c \in keys |->
          SeqSum([i \in 1..Len(df) |->
                    IF df[i].LOB_Category = c THEN df[i].Count ELSE 0])]

\* producer_df.groupby(["Producer", "LOB_Category"])["Count"].sum()
group_producer(df) ==
    LET keys == {<<df[i].Producer, df[i].LOB_Category>> : i \in
                    {j \in 1..Len(df) : /\ df[j].LOB_Category.t # "None"
                                        /\ df[j].Producer.t # "None"}}
    IN [k \in keys |->
          SeqSum([i \in 1..Len(df) |->
                    IF df[i].Producer = k[1] /\ df[i].LOB_Category = k[2]
                    THEN df[i].Count ELSE 0])]

----------------------------------------------------------------------------
(* what the external calls can answer *)

Jane == <<"J", "a", "n", "e">>
Doe == <<"D", "o", "e">>
Ann == <<"A", "n", "n">>

TypeValues == {S("Yacht"), S("zzz"), None}

\* a group counts at least one record
Q1Rows == {[Type |-> ty, oppCount |-> c] : ty \in TypeValues, c \in {1, MaxCount}}

Q2Rows == {[Producer__c |-> S("P1"), Type |-> S("Boat"), oppCount |-> 1],
           [Producer__c |-> None, Type |-> S("zzz"), oppCount |-> 1]}

OwnerValues == {None, D([attributes |-> "User"]),
                D([attributes |-> "User", Name |-> None]),
                D([attributes |-> "User", Name |-> S(Ann)])}

Q3Rows == {[Owner |-> o, Type |-> S("Yacht"), oppCount |-> c] :
              o \in OwnerValues, c \in {MaxCount}}
          \cup {[Type |-> S("Yacht"), oppCount |-> MaxCount]}

\* query 3 answers with no group or with one
Q3Responses == {<<>>} \cup {<<r>> : r \in Q3Rows}

InternalUsers == {None,
                  D([FirstName |-> S(Jane), LastName |-> S(Doe)]),
                  D([FirstName |-> S(<<>>), LastName |-> S(<<>>)])}

\* the lookup answers with at most one record per requested id
LookupResponses(ids) ==
    {r \in SeqsUpTo({[Id |-> p, InternalUser |-> iu] :
                        p \in ids, iu \in InternalUsers}, Cardinality(ids)) :
        \A i, j \in 1..Len(r) : r[i].Id = r[j].Id => i = j}

today == MaxDay

----------------------------------------------------------------------------
(* the page script *)

Init ==
    /\ session_state = EmptyDict
    /\ pc = "done"
    /\ start_date = 0
    /\ end_date = 0
    /\ store = {}
    /\ type_results = <<>>
    /\ results_with_prod = <<>>
    /\ results_without_prod = <<>>
    /\ producer_ids = {}
    /\ producer_names = EmptyDict
    /\ lob_local = <<>>
    /\ calls = <<>>
    /\ raised = FALSE
    /\ escaped = FALSE
    /\ lob_df = <<>>
    /\ producer_df = <<>>
    /\ grouped_lob = EmptyDict
    /\ grouped_producer = EmptyDict
    /\ fn_in = None
    /\ fn_out = None

\* a rerun starts the script with fresh module-level and local names
FreshRun ==
    /\ type_results' = <<>>
    /\ results_with_prod' = <<>>
    /\ results_without_prod' = <<>>
    /\ producer_ids' = {}
    /\ producer_names' = EmptyDict
    /\ lob_local' = <<>>
    /\ calls' = <<>>
    /\ raised' = FALSE
    /\ escaped' = FALSE
    /\ lob_df' = <<>>
    /\ producer_df' = <<>>
    /\ grouped_lob' = EmptyDict
    /\ grouped_producer' = EmptyDict

\* lines 21-40: a rerun of the script up to the end of the authentication
\* section; pressed is the button, login_ok the outcome of Salesforce(...)
AuthSection(pressed, login_ok) ==
    /\ pc \in {"done", "stopped", "crashed"}
    /\ LET ss1 == IF "sf_connected" \notin DOMAIN session_state
                  THEN ("sf_connected" :> FALSE) @@ session_state
                  ELSE session_state
       IN IF ~ss1.sf_connected
          THEN IF pressed
               THEN IF login_ok
                    THEN /\ session_state' =
                              ("sf" :> "session") @@
                              [ss1 EXCEPT !.sf_connected = TRUE]
                         /\ pc' = "call"
                    ELSE /\ session_state' = ss1
                         /\ pc' = "call"
               ELSE /\ session_state' = ss1
                    /\ pc' = "stopped"
          ELSE /\ session_state' = ss1
               /\ pc' = "call"
    /\ FreshRun
    /\ UNCHANGED <<start_date, end_date, store, fn_in, fn_out>>

\* the try block is left through the handler, or the exception escapes
Abort(site) ==
    IF InTry(site)
    THEN /\ raised' = TRUE
         /\ lob_df' = except_return(lob_local).lob
         /\ producer_df' = except_return(lob_local).prod
         /\ pc' = "render"
         /\ UNCHANGED escaped
    ELSE /\ escaped' = TRUE
         /\ pc' = "crashed"
         /\ UNCHANGED <<raised, lob_df, producer_df>>

\* lines 237-242 and 144-150: the dates are read and connect_sf_and_query
\* is entered; it reads st.session_state.sf
Enter(sd, ed) ==
    /\ pc = "call"
    /\ start_date' = sd
    /\ end_date' = ed
    /\ IF "sf" \in DOMAIN session_state
       THEN /\ pc' = "q1"
            /\ UNCHANGED <<raised, escaped, lob_df, producer_df>>
       ELSE Abort("session")
    /\ UNCHANGED <<session_state, store, type_results, results_with_prod,
                   results_without_prod, producer_ids, producer_names,
                   lob_local, calls, grouped_lob, grouped_producer,
                   fn_in, fn_out>>

\* lines 152-170: query 1 and the LOBReport rows
Query1(ok, resp) ==
    /\ pc = "q1"
    /\ calls' = Append(calls, [name |-> "q1", ok |-> ok])
    /\ IF after_call(ok, "q2") = "except"
       THEN /\ Abort("q1")
            /\ UNCHANGED <<type_results, lob_local>>
       ELSE /\ type_results' = (IF ok THEN resp ELSE <<>>)
            /\ lob_local' = lob_data(type_results')
            /\ pc' = "q2"
            /\ UNCHANGED <<raised, escaped, lob_df, producer_df>>
    /\ UNCHANGED <<session_state, start_date, end_date, store,
                   results_with_prod, results_without_prod, producer_ids,
                   producer_names, grouped_lob, grouped_producer,
                   fn_in, fn_out>>

\* lines 172-179: query 2
Query2(ok, resp) ==
    /\ pc = "q2"
    /\ calls' = Append(calls, [name |-> "q2", ok |-> ok])
    /\ IF after_call(ok, "q3") = "except"
       THEN /\ Abort("q2")
            /\ UNCHANGED results_with_prod
       ELSE /\ results_with_prod' = (IF ok THEN resp ELSE <<>>)
            /\ pc' = "q3"
            /\ UNCHANGED <<raised, escaped, lob_df, producer_df>>
    /\ UNCHANGED <<session_state, start_date, end_date, store, type_results,
                   lob_local, results_without_prod, producer_ids,
                   producer_names, grouped_lob, grouped_producer,
                   fn_in, fn_out>>

\* lines 181-188: query 3
Query3(ok, resp) ==
    /\ pc = "q3"
    /\ calls' = Append(calls, [name |-> "q3", ok |-> ok])
    /\ IF after_call(ok, "lookup") = "except"
       THEN /\ Abort("q3")
            /\ UNCHANGED results_without_prod
       ELSE /\ results_without_prod' = (IF ok THEN resp ELSE <<>>)
            /\ pc' = "lookup"
            /\ UNCHANGED <<raised, escaped, lob_df, producer_df>>
    /\ UNCHANGED <<session_state, start_date, end_date, store, type_results,
                   lob_local, results_with_prod, producer_ids,
                   producer_names, grouped_lob, grouped_producer,
                   fn_in, fn_out>>

\* lines 190-192 and 105-133: the ids are gathered and get_producer_names
\* runs; resp is what the lookup answers for the ids asked
ProducerLookup(ok, resp) ==
    /\ pc = "lookup"
    /\ producer_ids' = gather_ids(results_with_prod)
    /\ IF needs_lookup(producer_ids')
       THEN /\ calls' = Append(calls, [name |-> "lookup", ok |-> ok])
            /\ IF after_call(ok, "assemble") = "except"
               THEN /\ Abort("lookup")
                    /\ UNCHANGED producer_names
               ELSE /\ producer_names' =
                          names_mapping(IF ok THEN resp ELSE <<>>)
                    /\ pc' = "assemble"
                    /\ UNCHANGED <<raised, escaped, lob_df, producer_df>>
       ELSE /\ ok
            /\ resp = <<>>
            /\ producer_names' = EmptyDict
            /\ pc' = "assemble"
            /\ UNCHANGED <<calls, raised, escaped, lob_df, producer_df>>
    /\ UNCHANGED <<session_state, start_date, end_date, store, type_results,
                   lob_local, results_with_prod, results_without_prod,
                   grouped_lob, grouped_producer, fn_in, fn_out>>

\* lines 194-223: the ProducerReport rows; both tables are returned
Assemble ==
    /\ pc = "assemble"
    /\ lob_df' = lob_local
    /\ producer_df' = producer_rows(results_with_prod, producer_names)
                        \o owner_rows(results_without_prod)
    /\ pc' = "render"
    /\ UNCHANGED <<session_state, start_date, end_date, store, type_results,
                   results_with_prod, results_without_prod, producer_ids,
                   producer_names, lob_local, calls, raised, escaped,
                   grouped_lob, grouped_producer, fn_in, fn_out>>

\* lines 244-281: the two visualizations
Render ==
    /\ pc = "render"
    /\ grouped_lob' = (IF lob_df # <<>> THEN group_lob(lob_df) ELSE EmptyDict)
    /\ grouped_producer' = (IF producer_df # <<>> THEN group_producer(producer_df)
                            ELSE EmptyDict)
    /\ pc' = "done"
    /\ UNCHANGED <<session_state, start_date, end_date, store, type_results,
                   results_with_prod, results_without_prod, producer_ids,
                   producer_names, lob_local, calls, raised, escaped,
                   lob_df, producer_df, fn_in, fn_out>>

Next ==
    \/ \E pressed, login_ok \in BOOLEAN : AuthSection(pressed, login_ok)
    \/ Enter(today - 1, today)
    \/ \E ok \in BOOLEAN, resp \in SeqsUpTo(Q1Rows, MaxRows1) : Query1(ok, resp)
    \/ \E ok \in BOOLEAN, resp \in SeqsUpTo(Q2Rows, MaxRows2) : Query2(ok, resp)
    \/ \E ok \in BOOLEAN, resp \in Q3Responses : Query3(ok, resp)
    \/ \E ok \in BOOLEAN,
          resp \in LookupResponses(gather_ids(results_with_prod)) :
            ProducerLookup(ok, resp)
    \/ Assemble
    \/ Render

Spec == Init /\ [][Next]_vars

----------------------------------------------------------------------------
(* map_lob on its own: SpecMap *)

OtherInputs ==
    {"homeowners", "HOMEOWNERS", "yacht", "YACHT", "boat", "BOAT", "life",
     "umbrella", "Golf cart", "golf cart", "Personal auto", "Boat ", " Boat",
     "Wind Only", "Flood", "Other", "Commercial", "Inland Marine",
     "unknown-xyz", ""}

MapInputs == {S(k) : k \in DOMAIN LOB_MAPPING \cup OtherInputs} \cup {None}

Blank ==
    /\ session_state = EmptyDict
    /\ start_date = 0
    /\ end_date = 0
    /\ store = {}
    /\ type_results = <<>>
    /\ results_with_prod = <<>>
    /\ results_without_prod = <<>>
    /\ producer_ids = {}
    /\ producer_names = EmptyDict
    /\ lob_local = <<>>
    /\ calls = <<>>
    /\ raised = FALSE
    /\ escaped = FALSE
    /\ lob_df = <<>>
    /\ producer_df = <<>>
    /\ grouped_lob = EmptyDict
    /\ grouped_producer = EmptyDict

BlankUnchanged ==
    UNCHANGED <<session_state, start_date, end_date, store, type_results,
                results_with_prod, results_without_prod, producer_ids,
                producer_names, lob_local, calls, raised, escaped, lob_df,
                producer_df, grouped_lob, grouped_producer>>

InitMap ==
    /\ Blank
    /\ pc = "map"
    /\ fn_in \in MapInputs
    /\ fn_out = None

\* lines 101-103
MapLob ==
    /\ pc = "map"
    /\ fn_out' = map_lob(fn_in)
    /\ pc' = "mapped"
    /\ UNCHANGED fn_in
    /\ BlankUnchanged

NextMap == MapLob

SpecMap == InitMap /\ [][NextMap]_vars

----------------------------------------------------------------------------
(* the naming loop of get_producer_names on its own: SpecNames *)

IdName == <<"P1", "P2", "P3", "P4">>

NameParts == {None, S(<<>>), S(<<" ">>), S(Jane), S(<<" ", "D", "o", "e", " ">>)}

\* the person records: every combination of a missing key, a null and a text
PersonDicts ==
    {[FirstName |-> f, LastName |-> l] : f \in NameParts, l \in NameParts}
    \cup {[FirstName |-> f] : f \in NameParts}
    \cup {[LastName |-> l] : l \in NameParts}
    \cup {[attributes |-> "User"]}

\* the records the lookup can return for the i-th id
ProducerRecords(i) ==
    {[Id |-> S(IdName[i]), InternalUser |-> D(d)] : d \in PersonDicts}
    \cup {[Id |-> S(IdName[i]), InternalUser |-> None], [Id |-> S(IdName[i])]}

\* the answers of n records, the i-th about the i-th id
RECURSIVE NamesInputs(_)
NamesInputs(n) ==
    IF n = 0 THEN {<<>>}
    ELSE {Append(r, x) : r \in NamesInputs(n - 1), x \in ProducerRecords(n)}

InitNames ==
    /\ Blank
    /\ pc = "names"
    /\ \E n \in 1..MaxLookup : fn_in \in {D(r) : r \in NamesInputs(n)}
    /\ fn_out = None

\* lines 122-133
NamesLoop ==
    /\ pc = "names"
    /\ fn_out' = D(names_mapping(fn_in.v))
    /\ pc' = "named"
    /\ UNCHANGED fn_in
    /\ BlankUnchanged

NextNames == NamesLoop

SpecNames == InitNames /\ [][NextNames]_vars

----------------------------------------------------------------------------
(* the record store behind the three queries: SpecStore *)

\* a DateTime literal or a CreatedDate: <<day, hour, minute, second>>
TsLeq(a, b) ==
    \/ a[1] < b[1]
    \/ a[1] = b[1] /\ a[2] < b[2]
    \/ a[1] = b[1] /\ a[2] = b[2] /\ a[3] < b[3]
    \/ a[1] = b[1] /\ a[2] = b[2] /\ a[3] = b[3] /\ a[4] <= b[4]

\* line 148
start_date_str(d) == <<d, 0, 0, 0>>

\* an end literal that stops at midnight
end_date_str_midnight(d) == <<d, 0, 0, 0>>

\* line 149
end_date_str(d) == <<d, 23, 59, 59>>

\* line 150: CreatedDate >= start_date_str AND CreatedDate <= end_date_str
date_filter(o, sd, ed) ==
    /\ TsLeq(start_date_str(sd), o.CreatedDate)
    /\ TsLeq(o.CreatedDate, end_date_str(ed))

\* query 2's extra condition
with_producer(o) == o.Producer__c.t # "None"

\* query 3 with its extra condition left out
without_producer_any(o) == TRUE

\* query 3's extra condition
without_producer(o) == o.Producer__c.t = "None"

RECURSIVE SetToSeq(_)
SetToSeq(A) == IF A = {} THEN <<>>
               ELSE LET x == CHOOSE y \in A : TRUE
                    IN <<x>> \o SetToSeq(A \ {x})

\* lines 153-158: GROUP BY Type over the filtered records
type_query(st, sd, ed) ==
    LET sel == {o \in st : date_filter(o, sd, ed)}
    IN SetToSeq({[Type |-> ty,
                  oppCount |-> Cardinality({o \in sel : o.Type = ty})] :
                    ty \in {o.Type : o \in sel}})

\* lines 173-178: GROUP BY Producer__c, Type
query_with_producer(st, sd, ed) ==
    LET sel == {o \in st : date_filter(o, sd, ed) /\ with_producer(o)}
    IN SetToSeq({[Producer__c |-> g[1], Type |-> g[2],
                  oppCount |-> Cardinality({o \in sel :
                      o.Producer__c = g[1] /\ o.Type = g[2]})] :
                    g \in {<<o.Producer__c, o.Type>> : o \in sel}})

\* lines 182-187: GROUP BY Owner.Name, Type
query_without_producer(st, sd, ed) ==
    LET sel == {o \in st : date_filter(o, sd, ed) /\ without_producer(o)}
    IN SetToSeq({[Owner |-> D([Name |-> g[1]]), Type |-> g[2],
                  oppCount |-> Cardinality({o \in sel :
                      o.OwnerName = g[1] /\ o.Type = g[2]})] :
                    g \in {<<o.OwnerName, o.Type>> : o \in sel}})

TimesOfDay == {<<0, 0, 0>>, <<23, 59, 59>>}

OppFields ==
    {[CreatedDate |-> <<d>> \o tm, Type |-> ty, Producer__c |-> p,
      OwnerName |-> S(Ann)] :
        d \in 1..MaxDay, tm \in TimesOfDay,
        ty \in {S("Yacht"), S("Boat"), None}, p \in {None, S("P1")}}

\* the stores of at most n opportunities; Id tells apart the records that
\* agree on every field read by the queries
RECURSIVE Stores(_)
Stores(n) ==
    IF n = 0 THEN {{}}
    ELSE LET smaller == Stores(n - 1)
         IN smaller \cup
            {st \cup {[Id |-> 1 + Cardinality({o \in st :
                                  /\ o.CreatedDate = f.CreatedDate
                                  /\ o.Type = f.Type
                                  /\ o.Producer__c = f.Producer__c}),
                       CreatedDate |-> f.CreatedDate, Type |-> f.Type,
                       Producer__c |-> f.Producer__c,
                       OwnerName |-> f.OwnerName]} :
                st \in smaller, f \in OppFields}

InitStore ==
    /\ session_state = ("sf" :> "session") @@ ("sf_connected" :> TRUE)
    /\ pc = "done"
    /\ start_date = 0
    /\ end_date = 0
    /\ store \in Stores(MaxOpps)
    /\ type_results = <<>>
    /\ results_with_prod = <<>>
    /\ results_without_prod = <<>>
    /\ producer_ids = {}
    /\ producer_names = EmptyDict
    /\ lob_local = <<>>
    /\ calls = <<>>
    /\ raised = FALSE
    /\ escaped = FALSE
    /\ lob_df = <<>>
    /\ producer_df = <<>>
    /\ grouped_lob = EmptyDict
    /\ grouped_producer = EmptyDict
    /\ fn_in = None
    /\ fn_out = None

\* the lookup resolves every id it is asked about, or leaves it out
StoreLookupResponses(ids) ==
    {r \in LookupResponses(ids) :
        \A i \in 1..Len(r) :
            r[i].InternalUser = D([FirstName |-> S(Jane), LastName |-> S(Doe)])}

NextStore ==
    \/ \E pressed \in BOOLEAN : AuthSection(pressed, TRUE)
    \/ \E sd, ed \in 1..MaxDay : Enter(sd, ed)
    \/ \E ok \in BOOLEAN : Query1(ok, type_query(store, start_date, end_date))
    \/ \E ok \in BOOLEAN :
          Query2(ok, query_with_producer(store, start_date, end_date))
    \/ \E ok \in BOOLEAN :
          Query3(ok, query_without_producer(store, start_date, end_date))
    \/ \E ok \in BOOLEAN,
          resp \in StoreLookupResponses(gather_ids(results_with_prod)) :
            ProducerLookup(ok, resp)
    \/ Assemble
    \/ Render

SpecStore == InitStore /\ [][NextStore]_vars

----------------------------------------------------------------------------
(* Properties *)

Returned == pc \in {"render", "done"}

HasSession == "sf" \in DOMAIN session_state

Counts(df) == SeqSum([i \in 1..Len(df) |-> df[i].Count])

RawCounts(records) == SeqSum([i \in 1..Len(records) |-> records[i].oppCount])

\* C1: a report run is atomic. Once connect_sf_and_query has returned,
\* either something raised (a failed call, or no stored session) and both
\* returned tables are empty, or every call issued succeeded and the tables
\* hold one row per row of the responses; no exception escapes the run.
C1_AtomicRun ==
    /\ ~escaped
    /\ pc # "crashed"
    /\ Returned =>
        /\ raised <=> (\/ \E i \in 1..Len(calls) : ~calls[i].ok
                       \/ (~HasSession /\ start_date # 0))
        /\ raised => lob_df = <<>> /\ producer_df = <<>>
        /\ ~raised =>
            /\ \A i \in 1..Len(calls) : calls[i].ok
            /\ Len(lob_df) = Len(type_results)
            /\ Len(producer_df) =
                   Len(results_with_prod) + Len(results_without_prod)

\* query 3 failed after query 1 had produced rows and the run returned
C1_Witness ==
    /\ pc = "render"
    /\ raised
    /\ Len(calls) = 3
    /\ lob_local # <<>>
    /\ results_with_prod # <<>>

\* C2: connect_sf_and_query is entered only with an authenticated session:
\* whenever the script stands at the call site of line 242, sf_connected
\* is true and a session object is stored.
C2_AuthenticatedBeforeRun ==
    pc = "call" =>
        /\ "sf_connected" \in DOMAIN session_state
        /\ session_state.sf_connected
        /\ HasSession

\* the text of a name component; a missing key and a null are no text
NameText(d, k) ==
    IF k \in DOMAIN d /\ d[k].t = "str" THEN d[k].v ELSE <<>>

ExpectedName(rec) ==
    LET d == IF "InternalUser" \in DOMAIN rec /\ rec.InternalUser.t = "dict"
             THEN rec.InternalUser.v ELSE EmptyDict
        name == Strip(NameText(d, "FirstName") \o <<" ">>
                        \o NameText(d, "LastName"))
    IN IF name = <<>> THEN NAME_NOT_PROVIDED ELSE name

\* C3: every producer record returned by the lookup has its id mapped to
\* trim(firstName + " " + lastName), and to "Name Not Provided" when both
\* components are absent or blank (missing relationship, missing key, null
\* value or empty string).
C3_DisplayName ==
    pc = "named" =>
        \A i \in 1..Len(fn_in.v) :
            /\ fn_in.v[i].Id \in DOMAIN fn_out.v
            /\ fn_out.v[fn_in.v[i].Id] = S(ExpectedName(fn_in.v[i]))

\* C4: in a successful run every ProducerReport row has a display name; a
\* query-2 row whose id is not in the resolver's mapping and a query-3 row
\* whose owner relationship or owner name is missing have Producer =
\* "Name Not Provided"; each row keeps its Type, mapped category and Count.
C4_IdentityMiss ==
    (Returned /\ ~raised) =>
        LET n2 == Len(results_with_prod)
        IN /\ Len(producer_df) = n2 + Len(results_without_prod)
           /\ \A i \in 1..Len(producer_df) :
                LET rec == IF i <= n2 THEN results_with_prod[i]
                           ELSE results_without_prod[i - n2]
                    row == producer_df[i]
                    ty == IF "Type" \in DOMAIN rec THEN rec.Type ELSE S("Other")
                    miss ==
                      IF i <= n2
                      THEN rec.Producer__c \notin DOMAIN producer_names
                      ELSE \/ "Owner" \notin DOMAIN rec
                           \/ rec.Owner.t # "dict"
                           \/ "Name" \notin DOMAIN rec.Owner.v
                           \/ rec.Owner.v.Name.t # "str"
                IN /\ row.Producer.t = "str"
                   /\ miss => row.Producer = S(NAME_NOT_PROVIDED)
                   /\ row.Type = ty
                   /\ row.LOB_Category.t = "str"
                   /\ row.Count = rec.oppCount

\* C5: conservation of counts. After a successful run the per-category
\* totals shown for LOBReport add up to the sum of the counts of the raw
\* query-1 rows.
C5_Conservation ==
    (pc = "done" /\ ~raised) =>
        SetSum(grouped_lob, DOMAIN grouped_lob) = RawCounts(type_results)

\* an unknown type and a null type were grouped into one category
C5_Witness ==
    /\ pc = "done"
    /\ ~raised
    /\ Len(type_results) = 2
    /\ type_results[1].Type = S("zzz")
    /\ type_results[2].Type = None
    /\ Cardinality(DOMAIN grouped_lob) = 1
    /\ RawCounts(type_results) = 2 * MaxCount

Categories == {"Homeowners", "Personal Auto", "Boat", "Umbrella",
               "Inland Marine", "Commercial", "Other"}

\* C6: map_lob is total and exact-match. It returns a category for every
\* input, the table's value for its 35 keys, and "Other" for every other
\* string (wrong case, padded, empty, unknown) and for None.
C6_MapLobTotal ==
    pc = "mapped" =>
        /\ fn_out.t = "str"
        /\ fn_out.v \in Categories
        /\ (fn_in.t = "None" \/ fn_in.v \in OtherInputs) => fn_out.v = "Other"
        /\ fn_in = S("Homeowners") => fn_out.v = "Homeowners"
        /\ fn_in = S("Yacht") => fn_out.v = "Boat"
        /\ (fn_in.t = "str" /\ fn_in.v \in DOMAIN LOB_MAPPING)
              => fn_out.v = LOB_MAPPING[fn_in.v]

\* a differently-cased variant of a key was mapped
C6_Witness == pc = "mapped" /\ fn_in = S("yacht") /\ fn_out = S("Other")

NoLookupCall == \A k \in 1..Len(calls) : calls[k].name # "lookup"

NoProducerId(records) ==
    \A i \in 1..Len(records) :
        \/ "Producer__c" \notin DOMAIN records[i]
        \/ records[i].Producer__c.t = "None"
        \/ records[i].Producer__c = S("")

\* C7: with an empty id collection get_producer_names returns an empty
\* mapping and makes no external call: a run whose query 2 returned no rows,
\* or only rows without a producer id, never issues the producer lookup.
C7_NoLookupForNoIds ==
    NoProducerId(results_with_prod) =>
        /\ NoLookupCall
        /\ producer_ids = {}
        /\ DOMAIN producer_names = {}

\* get_producer_names has returned for rows that carry no producer id
C7_Witness ==
    /\ pc = "assemble"
    /\ Len(results_with_prod) = MaxRows2
    /\ NoProducerId(results_with_prod)
    /\ Len(calls) = 3

CallOrder == <<"q1", "q2", "q3", "lookup">>

\* C8: the external calls of a run are a prefix of query 1, query 2,
\* query 3, producer lookup; only the last call issued can have failed, so
\* nothing is called after a failure and the lookup follows three successes.
C8_SequentialCalls ==
    /\ Len(calls) <= 4
    /\ \A i \in 1..Len(calls) :
        /\ calls[i].name = CallOrder[i]
        /\ i < Len(calls) => calls[i].ok

\* all four calls were issued
C8_Witness == Len(calls) = 4 /\ calls[4].ok /\ pc = "assemble"

Seconds(t) == ((t[1] * 24 + t[2]) * 60 + t[3]) * 60 + t[4]

InRange(o) ==
    /\ Seconds(<<start_date, 0, 0, 0>>) <= Seconds(o.CreatedDate)
    /\ Seconds(o.CreatedDate) <= Seconds(<<end_date, 23, 59, 59>>)

Query1Done == Len(calls) >= 1 /\ calls[1].ok

\* C9: the date filter selects a record exactly when its creation time t
\* satisfies start 00:00:00 <= t <= end 23:59:59: query 1 counts, per type,
\* the records of the store in that range (a whole day when start = end),
\* and with start > end a run that does not fail returns empty tables.
C9_DateFilter ==
    /\ Query1Done =>
        /\ \A i \in 1..Len(type_results) :
              type_results[i].oppCount =
                  Cardinality({o \in store :
                      o.Type = type_results[i].Type /\ InRange(o)})
        /\ RawCounts(type_results) = Cardinality({o \in store : InRange(o)})
    /\ (Returned /\ ~raised /\ start_date > end_date) =>
            lob_df = <<>> /\ producer_df = <<>>

\* a single-day range selected a record created at 23:59:59 of that day
C9_Witness ==
    /\ Query1Done
    /\ start_date = end_date
    /\ \E o \in store : o.CreatedDate = <<end_date, 23, 59, 59>>
    /\ \E o \in store : o.CreatedDate = <<start_date, 0, 0, 0>>
    /\ RawCounts(type_results) = 2

CategoryCounts(df, c) ==
    SeqSum([i \in 1..Len(df) |->
                IF df[i].LOB_Category = S(c) THEN df[i].Count ELSE 0])

\* C10: queries 2 and 3 partition the records of query 1. After a
\* successful run on an unchanged store the counts of ProducerReport add up
\* to the counts of LOBReport, in total and for every category.
C10_Partition ==
    (Returned /\ ~raised) =>
        /\ Counts(producer_df) = Counts(lob_df)
        /\ \A c \in Categories :
              CategoryCounts(producer_df, c) = CategoryCounts(lob_df, c)

\* both producer queries contributed rows
C10_Witness ==
    /\ pc = "done"
    /\ ~raised
    /\ results_with_prod # <<>>
    /\ results_without_prod # <<>>
    /\ Counts(lob_df) = MaxOpps

====
